---- MODULE Spec2Model ----
(***************************************************************************)
(* The violetear web client (src/src/main.rs): one yew component, Model,  *)
(* whose update() handles one Msg at a time on a single thread.  The       *)
(* state is the fields of Model, the browser's local storage, the         *)
(* requests the fetch service has in flight, the file read in flight, the *)
(* interval timer and the messages the component sent to itself.          *)
(***************************************************************************)
EXTENDS Integers, Sequences, FiniteSets, Bags, TLC

\* ---------------------------------------------------------------- bounds
FewProfiles == 1      \* longest profile list of a response, where lists are kept short
FewTasks == 1         \* longest task list of a response, where lists are kept short
MaxProfiles == 2      \* longest profile list of a response, where profiles are examined
MaxTasks == 2         \* longest task list of a response, where polling is examined
MaxReportId == 2      \* report ids the server hands out are 1..MaxReportId
MaxFiles == 2         \* most files one file selection carries
MaxOrphans == 1       \* most requests left running after their handle was dropped

\* --------------------------------------------------------- Option<T>
\* Rust's Option<T> is a sequence of length 0 (None) or 1 (Some(x)).
None == << >>
Some(x) == << x >>
IsSome(o) == o # None
Unwrap(o) == o[1]

\* ------------------------------------------------------------- domains
Scene == {"Loading", "LoginRegister", "FetchConfigError", "LoggedIn"}
Tokens == {"t1"}
MachineNames == {"p1", "p2"}
TaskStatus == {"new", "pending", "clean", "detected", "timeout", "error"}
ReportIds == 1..MaxReportId
HttpStatus == {200, 401}

SeqsUpTo(S, n) == UNION {[1..k -> S] : k \in 0..n}
Range(s) == {s[i] : i \in 1..Len(s)}

\* Response payloads, as serde decodes them.
ProfilesResponse(n) == SeqsUpTo(MachineNames, n)
TasksResponse(n) == SeqsUpTo(TaskStatus, n)
LoginResponse == {None} \cup {Some(t) : t \in Tokens}

\* Result<T, Error>
Err == [ok |-> FALSE, val |-> None]
Ok(x) == [ok |-> TRUE, val |-> Some(x)]
Results(S) == {Err} \cup {Ok(x) : x \in S}

\* --------------------------------------------------------------- state
VARIABLES
    scene, config, state, storage,
    ft, rt, it, orphans, queue,
    loginregister_error, logout_error, fetch_profiles_error,
    fetched_profiles, enabled_profiles, current_pending_tasks,
    is_file_uploading,
    is_register_disabled, is_register_loading,
    is_login_loading, is_login_disabled,
    is_logout_loading, is_logout_disabled,
    drop_cancels, fault, last, toggled, serial

authFlags == <<is_register_disabled, is_register_loading, is_login_loading, is_login_disabled>>
logoutFlags == <<is_logout_loading, is_logout_disabled>>
errors == <<loginregister_error, logout_error, fetch_profiles_error>>
profileVars == <<fetched_profiles, enabled_profiles, toggled>>
session == <<state, storage>>
net == <<ft, orphans, serial>>

vars == <<scene, config, state, storage, ft, rt, it, orphans, queue,
          loginregister_error, logout_error, fetch_profiles_error,
                fetched_profiles, enabled_profiles, current_pending_tasks,
          is_file_uploading,
          is_register_disabled, is_register_loading,
          is_login_loading, is_login_disabled,
          is_logout_loading, is_logout_disabled,
          drop_cancels, fault, last, toggled, serial>>

\* ------------------------------------------------------- SessionStore
\* What the storage key holds: nothing, text that does not parse as a
\* State, or the JSON of a State.
StorageAbsent == [kind |-> "absent", token |-> None]
StorageGarbage == [kind |-> "garbage", token |-> None]
ToJson(s) == [kind |-> "json", token |-> s.token]
FromJson(v) == IF v.kind = "json" THEN Ok([token |-> v.token]) ELSE Err

Restore(v) ==
    LET parsed == FromJson(v)
    IN  IF parsed.ok THEN Unwrap(parsed.val) ELSE [token |-> None]

Store_before_token(s) == ToJson([token |-> None])

Store(s) == ToJson(s)

\* ------------------------------------------------------ fetch service
\* A request as the handlers build it: the endpoint, the Authorization
\* header, the report id in the path and the profiles query parameter.  The
\* body (the credentials the user typed, the file's bytes) is not modelled:
\* no handler reads it back.
Request(kind, auth, report_id, profiles) ==
    [kind |-> kind, auth |-> auth, report_id |-> report_id, profiles |-> profiles]

\* A FetchTask handle: the request and whether its callback has run.  A
\* handle whose callback has run is inert, whatever its request was.
Handle(req) == [req |-> req, done |-> FALSE]
Finished == [req |-> Request("", None, None, {}), done |-> TRUE]

Outstanding(h) == IsSome(h) /\ ~Unwrap(h).done

\* Whether a request can be issued over handle h without leaving more than
\* MaxOrphans dropped requests running.
Room(h, running) ==
    drop_cancels \/ ~Outstanding(h) \/ BagCardinality(running) < MaxOrphans

\* self.ft = Some(self.fetch_service.fetch(req, callback)): the previous
\* handle is dropped.  Dropping the handle of a request whose callback has
\* not run either cancels the callback (drop_cancels) or leaves the request
\* running with nobody holding it.
\* A request nobody holds any more answers as before; of the request itself
\* only the endpoint and the report id in its path are kept.
Detached(req) == Request(req.kind, None, req.report_id, {})

\* The requests are told apart by a tag: where requests are tagged (serial is
\* not Untagged) each request issued gets the tag the previous one did not
\* have, and serial is the tag of the request issued last.
Untagged == "untagged"
Tags == {"odd", "even"}
NextTag(tag) ==
    CASE tag = "odd" -> "even"
      [] tag = "even" -> "odd"
      [] OTHER -> tag

Fetch(req) ==
    /\ ft' = Some(Handle(req))
    /\ serial' = NextTag(serial)
    /\ orphans' = IF Outstanding(ft) /\ ~drop_cancels
                  THEN orphans (+) SetToBag({Detached(Unwrap(ft).req)})
                  ELSE orphans

IsSuccess(status) == status >= 200 /\ status < 300

\* The responses a request can get: a status, and a body that decodes to a
\* value of S or fails to decode.
Responses(S) == [status : HttpStatus, data : Results(S)]

Callback_ignores_status(response) == response.data

\* The send_back closures: a non-success status becomes Err, otherwise the
\* decoded body (itself Err on a decode failure) is passed on.
Callback(response) == IF IsSuccess(response.status) THEN response.data ELSE Err

\* ------------------------------------------------------------ messages
Message(msg, arg) == [msg |-> msg, arg |-> arg]

\* What the last handled message was (msg, its argument or result), where
\* it came from, and for a completion the status of the response, the
\* request it completes and whether that request's handle had been dropped
\* before it completed.
Handled(msg, from, arg, res, status, req, stale) ==
    [msg |-> msg, from |-> from, arg |-> arg, res |-> res, status |-> status,
     req |-> req, stale |-> stale]

NoResult == [ok |-> FALSE, val |-> None]

\* The handler panicked (unwrap on None): the process is aborted.
Panic(rest) ==
    /\ fault' = TRUE
    /\ queue' = rest

\* ----------------------------------------------------- Model::create
Create(stored) ==
    /\ storage' = stored
    /\ state' = Restore(stored)
    /\ queue' = << Message("FetchConfig", None) >>
    /\ scene' = "Loading"
    /\ ft' = None
    /\ rt' = None
    /\ it' = None
    /\ orphans' = EmptyBag
    /\ UNCHANGED serial
    /\ config' = None
    /\ loginregister_error' = None
    /\ logout_error' = None
    /\ fetched_profiles' = None
    /\ fetch_profiles_error' = None
    /\ enabled_profiles' = {}
    /\ toggled' = {}
    /\ is_file_uploading' = FALSE
    /\ is_register_disabled' = FALSE
    /\ is_register_loading' = FALSE
    /\ is_login_loading' = FALSE
    /\ is_login_disabled' = FALSE
    /\ is_logout_loading' = FALSE
    /\ is_logout_disabled' = FALSE
    /\ current_pending_tasks' = None
    /\ fault' = FALSE

StoredValues ==
    {StorageAbsent, StorageGarbage} \cup
    {ToJson([token |-> t]) : t \in {None} \cup {Some(x) : x \in Tokens}}

\* The state main() leaves: the component created over whatever the storage
\* key holds.
Started ==
    /\ storage \in StoredValues
    /\ state = Restore(storage)
    /\ queue = << Message("FetchConfig", None) >>
    /\ scene = "Loading"
    /\ ft = None
    /\ rt = None
    /\ it = None
    /\ orphans = EmptyBag
    /\ config = None
    /\ loginregister_error = None
    /\ logout_error = None
    /\ fetched_profiles = None
    /\ fetch_profiles_error = None
    /\ enabled_profiles = {}
    /\ toggled = {}
    /\ is_file_uploading = FALSE
    /\ is_register_disabled = FALSE
    /\ is_register_loading = FALSE
    /\ is_login_loading = FALSE
    /\ is_login_disabled = FALSE
    /\ is_logout_loading = FALSE
    /\ is_logout_disabled = FALSE
    /\ current_pending_tasks = None
    /\ fault = FALSE
    /\ drop_cancels \in BOOLEAN
    /\ last = Handled("create", "boot", None, NoResult, None, None, FALSE)

Init == Started /\ serial = Untagged

\* ------------------------------------------------------ Model::update
\* Each handler takes `rest`, the self-sent messages still queued behind the
\* message it handles; link.send_self appends to them.

Configs == {"https://api.x"}

FetchConfig(rest) ==
    /\ Fetch(Request("FetchConfig", None, None, {}))
    /\ queue' = rest
    /\ UNCHANGED <<scene, config, session, rt, it, errors,
                   profileVars, current_pending_tasks, is_file_uploading,
                   authFlags, logoutFlags, fault>>

FetchConfigDone_always_fetches_profiles(res, rest) ==
    /\ IF res.ok
       THEN /\ config' = res.val
            /\ queue' = Append(rest, Message("FetchProfiles", None))
            /\ scene' = "Loading"
       ELSE /\ scene' = "FetchConfigError"
            /\ queue' = rest
            /\ UNCHANGED config
    /\ UNCHANGED <<session, rt, it, errors, profileVars,
                   current_pending_tasks, is_file_uploading, authFlags,
                   logoutFlags, fault>>

FetchConfigDone_shows_login(res, rest) ==
    /\ IF res.ok
       THEN /\ config' = res.val
            /\ scene' = "LoginRegister"
            /\ IF IsSome(state.token)
               THEN queue' = Append(rest, Message("FetchProfiles", None))
               ELSE queue' = rest
       ELSE /\ scene' = "FetchConfigError"
            /\ queue' = rest
            /\ UNCHANGED config
    /\ UNCHANGED <<session, rt, it, errors, profileVars,
                   current_pending_tasks, is_file_uploading, authFlags,
                   logoutFlags, fault>>

FetchConfigDone_retries(res, rest) ==
    /\ IF res.ok
       THEN /\ config' = res.val
            /\ IF IsSome(state.token)
               THEN /\ queue' = Append(rest, Message("FetchProfiles", None))
                    /\ scene' = "Loading"
               ELSE /\ queue' = rest
                    /\ scene' = "LoginRegister"
       ELSE /\ scene' = "FetchConfigError"
            /\ queue' = Append(rest, Message("FetchConfig", None))
            /\ UNCHANGED config
    /\ UNCHANGED <<session, rt, it, errors, profileVars,
                   current_pending_tasks, is_file_uploading, authFlags,
                   logoutFlags, fault>>

FetchConfigDone(res, rest) ==
    /\ IF res.ok
       THEN /\ config' = res.val
            /\ IF IsSome(state.token)
               THEN /\ queue' = Append(rest, Message("FetchProfiles", None))
                    /\ scene' = "Loading"
               ELSE /\ queue' = rest
                    /\ scene' = "LoginRegister"
       ELSE /\ scene' = "FetchConfigError"
            /\ queue' = rest
            /\ UNCHANGED config
    /\ UNCHANGED <<session, rt, it, errors, profileVars,
                   current_pending_tasks, is_file_uploading, authFlags,
                   logoutFlags, fault>>

Login_leaves_register_enabled(rest) ==
    /\ loginregister_error' = None
    /\ is_login_loading' = TRUE
    /\ is_login_disabled' = TRUE
    /\ IF IsSome(config)
       THEN Fetch(Request("Login", None, None, {}))
       ELSE UNCHANGED net
    /\ queue' = rest
    /\ UNCHANGED <<scene, config, session, rt, it, logout_error,
                   fetch_profiles_error, profileVars,
                   current_pending_tasks, is_file_uploading,
                   is_register_loading, is_register_disabled, logoutFlags, fault>>

Login(rest) ==
    /\ loginregister_error' = None
    /\ is_register_disabled' = TRUE
    /\ is_login_loading' = TRUE
    /\ is_login_disabled' = TRUE
    /\ IF IsSome(config)
       THEN Fetch(Request("Login", None, None, {}))
       ELSE UNCHANGED net
    /\ queue' = rest
    /\ UNCHANGED <<scene, config, session, rt, it, logout_error,
                   fetch_profiles_error, profileVars,
                   current_pending_tasks, is_file_uploading,
                   is_register_loading, logoutFlags, fault>>

LoginDone(res, rest) ==
    IF res.ok
    THEN IF Unwrap(res.val) = None
         THEN /\ Panic(rest)
              /\ UNCHANGED <<scene, config, session, rt, it, errors, profileVars,
                             current_pending_tasks, is_file_uploading,
                             authFlags, logoutFlags>>
         ELSE /\ state' = [token |-> Some(Unwrap(Unwrap(res.val)))]
              /\ storage' = Store(state')
              /\ is_register_disabled' = FALSE
              /\ is_login_loading' = FALSE
              /\ is_login_disabled' = FALSE
              /\ queue' = Append(rest, Message("FetchProfiles", None))
              /\ UNCHANGED <<scene, config, rt, it, errors,
                             profileVars, current_pending_tasks,
                             is_file_uploading, is_register_loading,
                             logoutFlags, fault>>
    ELSE /\ is_register_disabled' = FALSE
         /\ is_login_loading' = FALSE
         /\ is_login_disabled' = FALSE
         /\ loginregister_error' = Some("Could not login")
         /\ queue' = rest
         /\ UNCHANGED <<scene, config, session, rt, it, logout_error,
                        fetch_profiles_error, profileVars,
                        current_pending_tasks, is_file_uploading,
                        is_register_loading, logoutFlags, fault>>

Register(rest) ==
    /\ loginregister_error' = None
    /\ is_register_disabled' = TRUE
    /\ is_register_loading' = TRUE
    /\ is_login_disabled' = TRUE
    /\ IF IsSome(config)
       THEN Fetch(Request("Register", None, None, {}))
       ELSE UNCHANGED net
    /\ queue' = rest
    /\ UNCHANGED <<scene, config, session, rt, it, logout_error,
                   fetch_profiles_error, profileVars,
                   current_pending_tasks, is_file_uploading,
                   is_login_loading, logoutFlags, fault>>

RegisterDone_keeps_login_disabled(res, rest) ==
    IF res.ok
    THEN IF Unwrap(res.val) = None
         THEN /\ is_register_disabled' = FALSE
              /\ is_register_loading' = FALSE
              /\ Panic(rest)
              /\ UNCHANGED <<scene, config, session, rt, it, errors, profileVars,
                             current_pending_tasks, is_file_uploading,
                             is_login_loading, is_login_disabled, logoutFlags>>
         ELSE /\ is_register_disabled' = FALSE
              /\ is_register_loading' = FALSE
              /\ state' = [token |-> Some(Unwrap(Unwrap(res.val)))]
              /\ storage' = Store(state')
              /\ queue' = Append(rest, Message("FetchProfiles", None))
              /\ UNCHANGED <<scene, config, rt, it, errors,
                             profileVars, current_pending_tasks,
                             is_file_uploading, is_login_loading, is_login_disabled,
                             logoutFlags, fault>>
    ELSE /\ is_register_disabled' = FALSE
         /\ is_register_loading' = FALSE
         /\ loginregister_error' = Some("Could not register")
         /\ queue' = rest
         /\ UNCHANGED <<scene, config, session, rt, it, logout_error,
                        fetch_profiles_error, profileVars,
                        current_pending_tasks, is_file_uploading,
                        is_login_loading, is_login_disabled, logoutFlags, fault>>

RegisterDone(res, rest) ==
    IF res.ok
    THEN IF Unwrap(res.val) = None
         THEN /\ is_register_disabled' = FALSE
              /\ is_register_loading' = FALSE
              /\ is_login_disabled' = FALSE
              /\ Panic(rest)
              /\ UNCHANGED <<scene, config, session, rt, it, errors, profileVars,
                             current_pending_tasks, is_file_uploading,
                             is_login_loading, logoutFlags>>
         ELSE /\ is_register_disabled' = FALSE
              /\ is_register_loading' = FALSE
              /\ is_login_disabled' = FALSE
              /\ state' = [token |-> Some(Unwrap(Unwrap(res.val)))]
              /\ storage' = Store(state')
              /\ queue' = Append(rest, Message("FetchProfiles", None))
              /\ UNCHANGED <<scene, config, rt, it, errors,
                             profileVars, current_pending_tasks,
                             is_file_uploading, is_login_loading,
                             logoutFlags, fault>>
    ELSE /\ is_register_disabled' = FALSE
         /\ is_register_loading' = FALSE
         /\ is_login_disabled' = FALSE
         /\ loginregister_error' = Some("Could not register")
         /\ queue' = rest
         /\ UNCHANGED <<scene, config, session, rt, it, logout_error,
                        fetch_profiles_error, profileVars,
                        current_pending_tasks, is_file_uploading,
                        is_login_loading, logoutFlags, fault>>

Logout(rest) ==
    IF IsSome(config)
    THEN /\ logout_error' = None
         /\ is_logout_disabled' = TRUE
         /\ is_logout_loading' = TRUE
         /\ IF IsSome(state.token)
            THEN /\ Fetch(Request("Logout", Some(Unwrap(state.token)), None, {}))
                 /\ queue' = rest
                 /\ UNCHANGED fault
            ELSE /\ Panic(rest)
                 /\ UNCHANGED net
         /\ UNCHANGED <<scene, config, session, rt, it, loginregister_error,
                        fetch_profiles_error, profileVars,
                        current_pending_tasks, is_file_uploading, authFlags>>
    ELSE /\ queue' = rest
         /\ UNCHANGED <<scene, config, session, net, rt, it, errors, profileVars, current_pending_tasks,
                        is_file_uploading, authFlags, logoutFlags, fault>>

LogoutDone_clears_token_on_failure(res, rest) ==
    /\ is_logout_disabled' = FALSE
    /\ is_logout_loading' = FALSE
    /\ state' = [token |-> None]
    /\ storage' = Store(state')
    /\ IF res.ok
       THEN /\ loginregister_error' = None
            /\ scene' = "LoginRegister"
            /\ UNCHANGED logout_error
       ELSE /\ logout_error' = Some("Could not logout")
            /\ UNCHANGED <<loginregister_error, scene>>
    /\ queue' = rest
    /\ UNCHANGED <<config, rt, it, fetch_profiles_error, profileVars,
                   current_pending_tasks, is_file_uploading, authFlags, fault>>

LogoutDone_always_leaves(res, rest) ==
    /\ is_logout_disabled' = FALSE
    /\ is_logout_loading' = FALSE
    /\ scene' = "LoginRegister"
    /\ IF res.ok
       THEN /\ state' = [token |-> None]
            /\ storage' = Store(state')
            /\ loginregister_error' = None
            /\ UNCHANGED logout_error
       ELSE /\ logout_error' = Some("Could not logout")
            /\ UNCHANGED <<session, loginregister_error>>
    /\ queue' = rest
    /\ UNCHANGED <<config, rt, it, fetch_profiles_error,
                   profileVars, current_pending_tasks, is_file_uploading,
                   authFlags, fault>>

LogoutDone_forgets_to_store(res, rest) ==
    /\ is_logout_disabled' = FALSE
    /\ is_logout_loading' = FALSE
    /\ IF res.ok
       THEN /\ state' = [token |-> None]
            /\ loginregister_error' = None
            /\ scene' = "LoginRegister"
            /\ UNCHANGED <<storage, logout_error>>
       ELSE /\ logout_error' = Some("Could not logout")
            /\ UNCHANGED <<session, loginregister_error, scene>>
    /\ queue' = rest
    /\ UNCHANGED <<config, rt, it, fetch_profiles_error,
                   profileVars, current_pending_tasks, is_file_uploading,
                   authFlags, fault>>

LogoutDone(res, rest) ==
    /\ is_logout_disabled' = FALSE
    /\ is_logout_loading' = FALSE
    /\ IF res.ok
       THEN /\ state' = [token |-> None]
            /\ storage' = Store(state')
            /\ loginregister_error' = None
            /\ scene' = "LoginRegister"
            /\ UNCHANGED logout_error
       ELSE /\ logout_error' = Some("Could not logout")
            /\ UNCHANGED <<session, loginregister_error, scene>>
    /\ queue' = rest
    /\ UNCHANGED <<config, rt, it, fetch_profiles_error,
                   profileVars, current_pending_tasks, is_file_uploading,
                   authFlags, fault>>

FetchProfiles(rest) ==
    /\ IF IsSome(config)
       THEN IF IsSome(state.token)
            THEN /\ Fetch(Request("FetchProfiles", Some(Unwrap(state.token)), None, {}))
                 /\ queue' = rest
                 /\ UNCHANGED fault
            ELSE /\ Panic(rest)
                 /\ UNCHANGED net
       ELSE /\ queue' = rest
            /\ UNCHANGED <<net, fault>>
    /\ UNCHANGED <<scene, config, session, rt, it, errors,
                   profileVars, current_pending_tasks, is_file_uploading,
                   authFlags, logoutFlags>>

InsertAll_first_only(set, profiles) ==
    IF profiles = << >> THEN set ELSE set \cup {Head(profiles)}

\* enabled_profiles.insert(machine_name) for each profile of the list, in order.
RECURSIVE InsertAll(_, _)
InsertAll(set, profiles) ==
    IF profiles = << >>
    THEN set
    ELSE InsertAll(set \cup {Head(profiles)}, Tail(profiles))

FetchProfilesDone_drops_session_on_failure(res, rest) ==
    /\ IF res.ok
       THEN /\ scene' = "LoggedIn"
            /\ enabled_profiles' = InsertAll({}, Unwrap(res.val))
            /\ fetched_profiles' = res.val
            /\ toggled' = {}
            /\ UNCHANGED <<fetch_profiles_error, session>>
       ELSE /\ fetch_profiles_error' = Some("Could not fetch profiles")
            /\ state' = [token |-> None]
            /\ storage' = Store(state')
            /\ UNCHANGED <<scene, profileVars>>
    /\ queue' = rest
    /\ UNCHANGED <<config, rt, it, loginregister_error, logout_error, current_pending_tasks,
                   is_file_uploading, authFlags, logoutFlags, fault>>

FetchProfilesDone_keeps_enabled(res, rest) ==
    /\ IF res.ok
       THEN /\ scene' = "LoggedIn"
            /\ enabled_profiles' = InsertAll(enabled_profiles, Unwrap(res.val))
            /\ fetched_profiles' = res.val
            /\ toggled' = {}
            /\ UNCHANGED fetch_profiles_error
       ELSE /\ fetch_profiles_error' = Some("Could not fetch profiles")
            /\ UNCHANGED <<scene, profileVars>>
    /\ queue' = rest
    /\ UNCHANGED <<config, session, rt, it, loginregister_error, logout_error, current_pending_tasks,
                   is_file_uploading, authFlags, logoutFlags, fault>>

FetchProfilesDone_forgets_list_on_failure(res, rest) ==
    /\ IF res.ok
       THEN /\ scene' = "LoggedIn"
            /\ enabled_profiles' = InsertAll({}, Unwrap(res.val))
            /\ fetched_profiles' = res.val
            /\ toggled' = {}
            /\ UNCHANGED fetch_profiles_error
       ELSE /\ fetch_profiles_error' = Some("Could not fetch profiles")
            /\ enabled_profiles' = {}
            /\ toggled' = IF IsSome(fetched_profiles)
                          THEN Range(Unwrap(fetched_profiles)) ELSE {}
            /\ UNCHANGED <<scene, fetched_profiles>>
    /\ queue' = rest
    /\ UNCHANGED <<config, session, rt, it, loginregister_error, logout_error, current_pending_tasks,
                   is_file_uploading, authFlags, logoutFlags, fault>>

FetchProfilesDone(res, rest) ==
    /\ IF res.ok
       THEN /\ scene' = "LoggedIn"
            /\ enabled_profiles' = InsertAll({}, Unwrap(res.val))
            /\ fetched_profiles' = res.val
            /\ toggled' = {}
            /\ UNCHANGED fetch_profiles_error
       ELSE /\ fetch_profiles_error' = Some("Could not fetch profiles")
            /\ UNCHANGED <<scene, profileVars>>
    /\ queue' = rest
    /\ UNCHANGED <<config, session, rt, it, loginregister_error, logout_error, current_pending_tasks,
                   is_file_uploading, authFlags, logoutFlags, fault>>

ToggleProfile_never_removes(machine_name, rest) ==
    /\ enabled_profiles' = enabled_profiles \cup {machine_name}
    /\ toggled' = (toggled \ {machine_name}) \cup ({machine_name} \ toggled)
    /\ queue' = rest
    /\ UNCHANGED <<scene, config, session, net, rt, it, errors,
                   fetched_profiles, current_pending_tasks,
                   is_file_uploading, authFlags, logoutFlags, fault>>

\* toggled records which names were toggled an odd number of times since the
\* profile list was last fetched.
ToggleProfile(machine_name, rest) ==
    /\ enabled_profiles' = IF machine_name \in enabled_profiles
                           THEN enabled_profiles \ {machine_name}
                           ELSE enabled_profiles \cup {machine_name}
    /\ toggled' = (toggled \ {machine_name}) \cup ({machine_name} \ toggled)
    /\ queue' = rest
    /\ UNCHANGED <<scene, config, session, net, rt, it, errors, fetched_profiles, current_pending_tasks,
                   is_file_uploading, authFlags, logoutFlags, fault>>

\* A ReaderTask: whether its callback has run, and while it has not, the
\* enabled profiles at the time the file was submitted.
Reading(submitted) == [done |-> FALSE, submitted |-> submitted]
Read == [done |-> TRUE, submitted |-> {}]

LoadFile_takes_first(file_count, rest) ==
    /\ IF file_count >= 1
       THEN /\ is_file_uploading' = TRUE
            /\ rt' = Some(Reading(enabled_profiles))
       ELSE UNCHANGED <<is_file_uploading, rt>>
    /\ queue' = rest
    /\ UNCHANGED <<scene, config, session, net, it, errors,
                   profileVars, current_pending_tasks, authFlags, logoutFlags,
                   fault>>

LoadFile(file_count, rest) ==
    /\ IF file_count = 1
       THEN /\ is_file_uploading' = TRUE
            /\ rt' = Some(Reading(enabled_profiles))
       ELSE UNCHANGED <<is_file_uploading, rt>>
    /\ queue' = rest
    /\ UNCHANGED <<scene, config, session, net, it, errors,
                   profileVars, current_pending_tasks, authFlags, logoutFlags,
                   fault>>

FileData == {<< "content" >>}

CreateReport(file_data, rest) ==
    /\ IF IsSome(config)
       THEN IF IsSome(state.token)
            THEN /\ Fetch(Request("CreateReport", Some(Unwrap(state.token)), None,
                                  enabled_profiles))
                 /\ queue' = rest
                 /\ UNCHANGED fault
            ELSE /\ Panic(rest)
                 /\ UNCHANGED net
       ELSE /\ queue' = rest
            /\ UNCHANGED <<net, fault>>
    /\ UNCHANGED <<scene, config, session, it, errors,
                   profileVars, current_pending_tasks, is_file_uploading,
                   authFlags, logoutFlags>>

CreateReportDone_polls_anyway(res, rest) ==
    /\ is_file_uploading' = FALSE
    /\ IF res.ok
       THEN /\ queue' = Append(rest, Message("FetchTasks", res.val))
            /\ it' = res.val
       ELSE /\ queue' = IF IsSome(it) THEN Append(rest, Message("FetchTasks", it)) ELSE rest
            /\ UNCHANGED it
    /\ UNCHANGED <<scene, config, session, rt, errors,
                   profileVars, current_pending_tasks, authFlags, logoutFlags,
                   fault>>

CreateReportDone(res, rest) ==
    /\ is_file_uploading' = FALSE
    /\ IF res.ok
       THEN /\ queue' = Append(rest, Message("FetchTasks", res.val))
            /\ it' = res.val
       ELSE /\ queue' = rest
            /\ UNCHANGED it
    /\ UNCHANGED <<scene, config, session, rt, errors,
                   profileVars, current_pending_tasks, authFlags, logoutFlags,
                   fault>>

FetchTasks(report_id, rest) ==
    /\ IF IsSome(config)
       THEN IF IsSome(state.token)
            THEN /\ Fetch(Request("FetchTasks", Some(Unwrap(state.token)),
                                  Some(report_id), {}))
                 /\ queue' = rest
                 /\ UNCHANGED fault
            ELSE /\ Panic(rest)
                 /\ UNCHANGED net
       ELSE /\ queue' = rest
            /\ UNCHANGED <<net, fault>>
    /\ UNCHANGED <<scene, config, session, rt, it, errors,
                   profileVars, current_pending_tasks, is_file_uploading,
                   authFlags, logoutFlags>>

IsPending_forgets_new(status) == status = "pending"

IsPending(status) == status = "new" \/ status = "pending"

FetchTasksDone(res, rest) ==
    /\ IF res.ok
       THEN LET pending_tasks == SelectSeq(Unwrap(res.val), IsPending)
            IN  /\ it' = IF Len(pending_tasks) = 0 THEN None ELSE it
                /\ current_pending_tasks' = res.val
       ELSE UNCHANGED <<it, current_pending_tasks>>
    /\ queue' = rest
    /\ UNCHANGED <<scene, config, session, rt, errors,
                   profileVars, is_file_uploading, authFlags, logoutFlags,
                   fault>>

\* ------------------------------------------------------------ scheduler
\* A message the component sent to itself is handled before any other event.
Idle == ~fault /\ queue = << >>

Note(msg, from, arg) ==
    /\ last' = Handled(msg, from, arg, NoResult, None, None, FALSE)
    /\ UNCHANGED drop_cancels

SelfFetchConfig ==
    /\ ~fault /\ queue # << >> /\ Head(queue).msg = "FetchConfig"
    /\ FetchConfig(Tail(queue))
    /\ Note("FetchConfig", "self", None)

SelfFetchProfiles ==
    /\ ~fault /\ queue # << >> /\ Head(queue).msg = "FetchProfiles"
    /\ FetchProfiles(Tail(queue))
    /\ Note("FetchProfiles", "self", None)

SelfFetchTasks ==
    /\ ~fault /\ queue # << >> /\ Head(queue).msg = "FetchTasks"
    /\ FetchTasks(Unwrap(Head(queue).arg), Tail(queue))
    /\ Note("FetchTasks", "self", Head(queue).arg)

\* The interval timer: while self.it holds an IntervalTask it fires every
\* 1000 ms and sends FetchTasks for the report id it was armed with.
Tick ==
    /\ Idle /\ IsSome(it)
    /\ Room(ft, orphans)
    /\ FetchTasks(Unwrap(it), queue)
    /\ Note("FetchTasks", "timer", it)

\* ------------------------------------------------------------ Model::view
\* The controls the current scene renders, honouring their disabled flags.
ClickLogin ==
    /\ Idle /\ scene = "LoginRegister" /\ ~is_login_disabled
    /\ Room(ft, orphans)
    /\ Login(queue)
    /\ Note("Login", "user", None)

ClickRegister ==
    /\ Idle /\ scene = "LoginRegister" /\ ~is_register_disabled
    /\ Room(ft, orphans)
    /\ Register(queue)
    /\ Note("Register", "user", None)

ClickLogout ==
    /\ Idle /\ scene = "LoggedIn" /\ ~is_logout_disabled
    /\ Room(ft, orphans)
    /\ Logout(queue)
    /\ Note("Logout", "user", None)

ChangeProfile ==
    /\ Idle /\ scene = "LoggedIn"
    /\ \E machine_name \in Range(Unwrap(fetched_profiles)) :
          /\ ToggleProfile(machine_name, queue)
          /\ Note("ToggleProfile", "user", Some(machine_name))

ChangeFile ==
    /\ Idle /\ scene = "LoggedIn" /\ ~is_file_uploading
    /\ \E file_count \in 0..MaxFiles :
          /\ LoadFile(file_count, queue)
          /\ Note("LoadFile", "user", Some(file_count))

\* ------------------------------------------------------------ completions
\* The file read finishes: the reader's callback sends CreateReport.
ReadDone ==
    /\ Idle /\ Outstanding(rt)
    /\ Room(ft, orphans)
    /\ rt' = Some(Read)
    /\ \E file_data \in FileData :
          /\ CreateReport(file_data, queue)
          /\ Note("CreateReport", "reader", Some(file_data))

\* The requests of one kind whose callback can still run: the one self.ft
\* holds, and those left running after their handle was dropped.
Completable(kind) ==
    {[req |-> Unwrap(ft).req, held |-> TRUE] :
        x \in {y \in {ft} : Outstanding(y) /\ Unwrap(y).req.kind = kind}}
    \cup {[req |-> r, held |-> FALSE] : r \in {o \in BagToSet(orphans) : o.kind = kind}}

Deliver(c) ==
    /\ UNCHANGED serial
    /\ IF c.held
       THEN /\ ft' = Some(Finished)
            /\ UNCHANGED orphans
       ELSE /\ orphans' = orphans (-) SetToBag({c.req})
            /\ UNCHANGED ft

Completion(msg, c, response) ==
    /\ last' = Handled(msg, "net", None, Callback(response), Some(response.status),
                       Some(c.req), ~c.held)
    /\ UNCHANGED drop_cancels

NetFetchConfigDone ==
    /\ Idle
    /\ \E c \in Completable("FetchConfig"), response \in Responses(Configs) :
          LET res == Callback(response)
          IN  /\ Deliver(c)
              /\ FetchConfigDone(res, queue)
              /\ Completion("FetchConfigDone", c, response)

NetLoginDone ==
    /\ Idle
    /\ \E c \in Completable("Login"), response \in Responses(LoginResponse) :
          LET res == Callback(response)
          IN  /\ Deliver(c)
              /\ res.ok => Room(ft', orphans')
              /\ LoginDone(res, queue)
              /\ Completion("LoginDone", c, response)

NetRegisterDone ==
    /\ Idle
    /\ \E c \in Completable("Register"), response \in Responses(LoginResponse) :
          LET res == Callback(response)
          IN  /\ Deliver(c)
              /\ res.ok => Room(ft', orphans')
              /\ RegisterDone(res, queue)
              /\ Completion("RegisterDone", c, response)

\* Response<Nothing>: the logout callback looks at the status alone.
NetLogoutDone ==
    /\ Idle
    /\ \E c \in Completable("Logout"),
          response \in {[status |-> st, data |-> Ok("unit")] : st \in HttpStatus} :
          LET res == Callback(response)
          IN  /\ Deliver(c)
              /\ LogoutDone(res, queue)
              /\ Completion("LogoutDone", c, response)

NetFetchProfilesDone(n) ==
    /\ Idle
    /\ \E c \in Completable("FetchProfiles"), response \in Responses(ProfilesResponse(n)) :
          LET res == Callback(response)
          IN  /\ Deliver(c)
              /\ FetchProfilesDone(res, queue)
              /\ Completion("FetchProfilesDone", c, response)

NetCreateReportDone ==
    /\ Idle
    /\ \E c \in Completable("CreateReport"), response \in Responses(ReportIds) :
          LET res == Callback(response)
          IN  /\ Deliver(c)
              /\ res.ok => Room(ft', orphans')
              /\ CreateReportDone(res, queue)
              /\ Completion("CreateReportDone", c, response)

NetFetchTasksDone(n) ==
    /\ Idle
    /\ \E c \in Completable("FetchTasks"), response \in Responses(TasksResponse(n)) :
          LET res == Callback(response)
          IN  /\ Deliver(c)
              /\ FetchTasksDone(res, queue)
              /\ Completion("FetchTasksDone", c, response)

\* The user reloads the page: main() starts the component again over the
\* storage the previous run left.
Reload ==
    /\ fault \/ queue = << >>
    /\ Create(storage)
    /\ Note("create", "boot", None)

\* One step of the application, against a server whose profile lists are no
\* longer than np and whose task lists are no longer than nt.
Step(np, nt) ==
    \/ SelfFetchConfig
    \/ SelfFetchProfiles
    \/ SelfFetchTasks
    \/ Tick
    \/ ClickLogin
    \/ ClickRegister
    \/ ClickLogout
    \/ ChangeProfile
    \/ ChangeFile
    \/ ReadDone
    \/ NetFetchConfigDone
    \/ NetLoginDone
    \/ NetRegisterDone
    \/ NetLogoutDone
    \/ NetFetchProfilesDone(np)
    \/ NetCreateReportDone
    \/ NetFetchTasksDone(nt)
    \/ Reload

\* The whole application with short lists, whether or not the transport
\* cancels the callback of a dropped handle.
Next == Step(FewProfiles, FewTasks)

Spec == Init /\ [][Next]_vars

\* Dropping a handle cancels its callback; profile lists up to MaxProfiles.
InitCancelling == Init /\ drop_cancels

NextProfiles == Step(MaxProfiles, FewTasks)

SpecProfiles == InitCancelling /\ [][NextProfiles]_vars

\* Dropping a handle cancels its callback; task lists up to MaxTasks.
NextTasks == Step(FewProfiles, MaxTasks)

SpecTasks == InitCancelling /\ [][NextTasks]_vars

\* Polling over a restored session, with the requests tagged, on a
\* transport that cancels the callback of a dropped handle.
InitPolling == Started /\ drop_cancels /\ IsSome(state.token) /\ serial = "odd"

NextPolling == Step(FewProfiles, FewTasks)

\* A task request is answered with a list that has no new or pending task.
NetTerminalTasks ==
    /\ NetFetchTasksDone(FewTasks)
    /\ last'.res.ok
    /\ \A i \in 1..Len(Unwrap(last'.res.val)) :
          Unwrap(last'.res.val)[i] \notin {"new", "pending"}

\* The server comes to report every task of a report in a terminal status:
\* from some time on every task request that is answered is answered so.
ServerResolves == <>[][NetFetchTasksDone(FewTasks) => NetTerminalTasks]_vars

NetOtherDone ==
    \/ NetFetchConfigDone
    \/ NetLoginDone
    \/ NetRegisterDone
    \/ NetLogoutDone
    \/ NetFetchProfilesDone(FewProfiles)
    \/ NetCreateReportDone

\* The scheduling: a message the component sent to itself is handled; the
\* armed timer keeps ticking; a file read completes; and each request, as long
\* as it is not cancelled, is answered.
Fairness ==
    /\ WF_vars(SelfFetchConfig \/ SelfFetchProfiles \/ SelfFetchTasks)
    /\ WF_vars(Tick)
    /\ WF_vars(ReadDone)
    /\ \A tag \in Tags : WF_vars(serial = tag /\ NetFetchTasksDone(FewTasks))
    /\ \A tag \in Tags : WF_vars(serial = tag /\ NetOtherDone)

SpecPolling == InitPolling /\ [][NextPolling]_vars /\ Fairness /\ ServerResolves

\* ---------------------------------------------------------------- claims
Terminal == {"clean", "detected", "timeout", "error"}
AllTerminal(tasks) == \A i \in 1..Len(tasks) : tasks[i] \in Terminal

Handling(msg) == last'.msg = msg
Succeeded == last'.res.ok

\* C1: a successful task fetch leaves the timer cancelled if and only if
\* every task of the fetched list has a terminal status (an empty list
\* included) or the timer was already cancelled; it never re-arms or
\* re-targets the timer, it replaces the held task list by the fetched one,
\* and the timer sends FetchTasks only while it is armed.
C1_StopRule ==
    [][ /\ (Handling("FetchTasksDone") /\ Succeeded) =>
            /\ (it' = None) <=> (it = None \/ AllTerminal(Unwrap(last'.res.val)))
            /\ IsSome(it') => it' = it
            /\ current_pending_tasks' = last'.res.val
        /\ (Handling("FetchTasks") /\ last'.from = "timer") => IsSome(it)
      ]_vars

C1_Witness ==
    /\ last.msg = "FetchTasksDone" /\ last.res.ok
    /\ Unwrap(last.res.val) = << "detected", "clean" >>
    /\ it = None
    /\ current_pending_tasks = Some(<< "detected", "clean" >>)

\* The timer stays armed over a list that mixes a terminal and a pending task.
C1_KeepsPolling ==
    /\ last.msg = "FetchTasksDone" /\ last.res.ok
    /\ Unwrap(last.res.val) = << "clean", "new" >>
    /\ IsSome(it)

\* C2: no handler faults; in particular the handlers that send the token
\* (Logout, FetchProfiles, CreateReport, FetchTasks) never run into an
\* absent token.
C2_AuthorizedRequestsHaveToken ==
    last.msg \in {"Logout", "FetchProfiles", "CreateReport", "FetchTasks"} => ~fault

\* C2, the timer's share of it: a tick never finds the token absent.
C2_TickHasToken ==
    (last.msg = "FetchTasks" /\ last.from = "timer") => ~fault

\* C2, the login's share of it: a handled login or register success carried a token.
C2_LoginCarriesToken ==
    last.msg \in {"LoginDone", "RegisterDone"} => ~fault

\* What a handler can change, the bookkeeping of handles and of the last
\* message apart.
modelState ==
    <<scene, config, state, storage, rt, it, queue, errors, profileVars,
      current_pending_tasks, is_file_uploading, authFlags, logoutFlags, fault>>

\* C3: the completion of a request whose handle was dropped for a newer
\* request changes nothing.
C3_StaleCompletionIgnored ==
    [][ (last'.from = "net" /\ last'.stale) => UNCHANGED modelState ]_vars

\* C3, for the poller: a task fetch that completes was issued for the report
\* the timer is armed for.
C3_TasksOfArmedReport ==
    (last.msg = "FetchTasksDone" /\ IsSome(it)) => Unwrap(last.req).report_id = it

\* C3, for the session: a profile fetch never completes into a scene of
\* LoggedIn without a token.
C3_ProfilesOfLiveSession ==
    (last.msg = "FetchProfilesDone" /\ last.res.ok) => IsSome(state.token)

FetchProfilesMessage == Message("FetchProfiles", None)

\* The token a login or register response carries.
Carried(res) == Unwrap(res.val)

\* C4: a login success that carries token t sets the session token to t,
\* stores a session that restores to the same token, clears
\* is_login_loading, is_login_disabled and is_register_disabled, and sends
\* itself FetchProfiles exactly once; that FetchProfiles, handled next,
\* issues the profile request with t in its Authorization header.
C4_LoginSuccess ==
    [][ /\ (Handling("LoginDone") /\ Succeeded /\ IsSome(Carried(last'.res))) =>
            /\ state'.token = Carried(last'.res)
            /\ Restore(storage').token = Carried(last'.res)
            /\ ~is_login_loading' /\ ~is_login_disabled' /\ ~is_register_disabled'
            /\ queue' = Append(queue, FetchProfilesMessage)
            /\ Len(queue') = 1
            /\ ~fault'
        /\ (last.msg = "LoginDone" /\ last.res.ok /\ ~fault) =>
            /\ Handling("FetchProfiles")
            /\ Outstanding(ft')
            /\ Unwrap(ft').req.kind = "FetchProfiles"
            /\ Unwrap(ft').req.auth = Carried(last.res)
            /\ queue' = << >>
      ]_vars

C4_Witness ==
    /\ last.msg = "LoginDone" /\ last.res.ok
    /\ state.token = Some("t1")
    /\ storage = ToJson([token |-> Some("t1")])
    /\ queue = << FetchProfilesMessage >>

\* C5: a failed logout leaves the session token, the stored session and the
\* scene as they were, clears is_logout_loading and is_logout_disabled, sets
\* the logout error and changes nothing else; the scene is LoggedIn when the
\* failure belongs to the request the component still holds, and Logout is
\* enabled again.
C5_LogoutFailure ==
    [][ (Handling("LogoutDone") /\ ~Succeeded) =>
            /\ UNCHANGED <<state, storage, scene>>
            /\ ~is_logout_loading' /\ ~is_logout_disabled'
            /\ logout_error' = Some("Could not logout")
            /\ UNCHANGED <<config, rt, it, queue, loginregister_error,
                           fetch_profiles_error, profileVars,
                           current_pending_tasks, is_file_uploading,
                           authFlags, fault>>
            /\ ~last'.stale => (scene' = "LoggedIn" /\ IsSome(state'.token))
      ]_vars

C5_Witness ==
    /\ last.msg = "LogoutDone" /\ ~last.res.ok /\ last.status = Some(401)
    /\ scene = "LoggedIn"
    /\ state.token = Some("t1")
    /\ Restore(storage).token = Some("t1")
    /\ logout_error = Some("Could not logout")
    /\ ~is_logout_disabled

\* C6: after a successful profile fetch the enabled set is exactly the set
\* of machine names of the returned list, the held list is the returned
\* list, and the scene is LoggedIn.
C6_ProfilesReset ==
    (last.msg = "FetchProfilesDone" /\ last.res.ok) =>
        /\ enabled_profiles = Range(Unwrap(last.res.val))
        /\ fetched_profiles = last.res.val
        /\ scene = "LoggedIn"

C6_Witness ==
    /\ last.msg = "FetchProfilesDone" /\ last.res.ok
    /\ Unwrap(last.res.val) = << "p2", "p1" >>
    /\ enabled_profiles = {"p1", "p2"}
    /\ scene = "LoggedIn"

SymDiff(a, b) == (a \ b) \cup (b \ a)

\* C7: at any time the enabled set is the symmetric difference of the names
\* of the held profile list and the names toggled an odd number of times
\* since that list was fetched; a ToggleProfile changes only the enabled set
\* and issues no request.
C7_ToggleParity ==
    [][ /\ IsSome(fetched_profiles') =>
            enabled_profiles' = SymDiff(Range(Unwrap(fetched_profiles')), toggled')
        /\ Handling("ToggleProfile") =>
            UNCHANGED <<scene, config, state, storage, ft, orphans, rt, it, queue,
                        errors, fetched_profiles, current_pending_tasks,
                        is_file_uploading, authFlags, logoutFlags, fault>>
      ]_vars

\* Of a list of two profiles, p2 has been toggled off.
C7_Witness ==
    /\ last.msg = "ToggleProfile"
    /\ fetched_profiles = Some(<< "p1", "p2" >>)
    /\ toggled = {"p2"}
    /\ enabled_profiles = {"p1"}

\* C8: a successful report creation with id r sends itself one FetchTasks(r)
\* and arms the timer for r; every FetchTasks handled afterwards, the
\* self-sent one and each tick of the timer, issues the task request for the
\* report the timer is armed for.
C8_HandOff ==
    [][ /\ (Handling("CreateReportDone") /\ Succeeded) =>
            /\ queue' = << Message("FetchTasks", last'.res.val) >>
            /\ it' = last'.res.val
        /\ Handling("FetchTasks") =>
            /\ ~fault'
            /\ Outstanding(ft')
            /\ Unwrap(ft').req.kind = "FetchTasks"
            /\ Unwrap(ft').req.report_id = it
      ]_vars

\* C8 without the requirement that the request is issued: a FetchTasks that
\* does issue a request issues it for the report the timer is armed for.
C8_SameReport ==
    [][ /\ (Handling("CreateReportDone") /\ Succeeded) =>
            /\ queue' = << Message("FetchTasks", last'.res.val) >>
            /\ it' = last'.res.val
        /\ (Handling("FetchTasks") /\ ~fault') =>
            /\ Outstanding(ft')
            /\ Unwrap(ft').req.kind = "FetchTasks"
            /\ Unwrap(ft').req.report_id = it
      ]_vars

\* C9: a failed login, an error status included, sets the login error,
\* clears is_login_loading, is_login_disabled and is_register_disabled,
\* leaves the scene, the session token and the stored session as they were,
\* sends no message and issues no request.
C9_LoginFailure ==
    [][ /\ (Handling("LoginDone") /\ ~IsSuccess(Unwrap(last'.status))) => ~Succeeded
        /\ (Handling("LoginDone") /\ ~Succeeded) =>
            /\ loginregister_error' = Some("Could not login")
            /\ ~is_login_loading' /\ ~is_login_disabled' /\ ~is_register_disabled'
            /\ UNCHANGED <<scene, state, storage>>
            /\ queue' = << >>
            /\ ~Outstanding(ft') \/ ft' = ft
            /\ ~fault'
      ]_vars

C9_Witness ==
    /\ last.msg = "LoginDone" /\ last.status = Some(401) /\ ~last.res.ok
    /\ loginregister_error = Some("Could not login")
    /\ scene = "LoginRegister"
    /\ state.token = None
    /\ ~is_login_disabled /\ ~is_register_disabled /\ ~is_login_loading

\* C10: the component starts in Loading, a stored value that is absent or
\* does not parse restores to a session without token and is no fault, the
\* scene is still Loading while the config request is out, and a config
\* success without token shows LoginRegister with no message sent and no
\* request issued.
C10_StartupWithoutSession ==
    /\ last.msg = "create" =>
        /\ scene = "Loading" /\ ~fault
        /\ storage.kind # "json" => state.token = None
    /\ last.msg = "FetchConfig" => scene = "Loading"
    /\ (last.msg = "FetchConfigDone" /\ last.res.ok /\ state.token = None) =>
        /\ scene = "LoginRegister"
        /\ IsSome(config)
        /\ queue = << >>
        /\ ~Outstanding(ft)
        /\ ~fault

C10_Witness ==
    /\ last.msg = "FetchConfigDone" /\ last.res.ok
    /\ storage = StorageGarbage
    /\ state.token = None
    /\ scene = "LoginRegister"

\* C11: when the restored session has a token, a config success keeps the
\* scene Loading and sends itself FetchProfiles; that FetchProfiles, handled
\* next, issues the profile request with the restored token while the scene
\* is still Loading; as long as the scene is Loading with a token present no
\* step shows LoginRegister; and a profile success arriving in Loading makes
\* the scene LoggedIn with every returned machine name enabled.
C11_StartupWithSession ==
    [][ /\ (Handling("FetchConfigDone") /\ Succeeded /\ IsSome(state.token)) =>
            /\ scene' = "Loading"
            /\ queue' = << FetchProfilesMessage >>
            /\ UNCHANGED <<state, storage>>
        /\ (last.msg = "FetchConfigDone" /\ last.res.ok /\ IsSome(state.token)) =>
            /\ Handling("FetchProfiles")
            /\ Outstanding(ft')
            /\ Unwrap(ft').req.kind = "FetchProfiles"
            /\ Unwrap(ft').req.auth = state.token
            /\ scene' = "Loading"
            /\ ~fault'
        /\ (scene = "Loading" /\ IsSome(state.token)) => scene' # "LoginRegister"
        /\ (scene = "Loading" /\ Handling("FetchProfilesDone") /\ Succeeded) =>
            /\ scene' = "LoggedIn"
            /\ enabled_profiles' = Range(Unwrap(last'.res.val))
      ]_vars

\* The profile request is out with the restored token and the scene is
\* still Loading.
C11_Witness ==
    /\ last.msg = "FetchProfiles" /\ last.from = "self"
    /\ scene = "Loading"
    /\ Restore(storage).token = Some("t1")
    /\ Outstanding(ft)
    /\ Unwrap(ft).req.kind = "FetchProfiles"
    /\ Unwrap(ft).req.auth = Some("t1")

\* The same path at its end: the request sent with the restored token
\* answered p1 and p2, and both are enabled in LoggedIn.
C11_ScenarioB ==
    /\ last.msg = "FetchProfilesDone" /\ last.res.ok
    /\ Unwrap(last.req).auth = Some("t1")
    /\ Unwrap(last.res.val) = << "p1", "p2" >>
    /\ scene = "LoggedIn"
    /\ enabled_profiles = {"p1", "p2"}
    /\ ~is_login_loading /\ loginregister_error = None

\* C12: while the page is not reloaded, a step that starts in LoggedIn and
\* changes the scene is the handling of a successful logout, and it sets
\* the scene to LoginRegister.
C12_OnlyLogoutLeaves ==
    [][ (scene = "LoggedIn" /\ scene' # "LoggedIn" /\ ~Handling("create")) =>
            /\ Handling("LogoutDone") /\ Succeeded
            /\ scene' = "LoginRegister"
      ]_vars

\* A logout failed in LoggedIn and the scene is LoggedIn still.
C12_Witness ==
    /\ last.msg = "LogoutDone" /\ ~last.res.ok
    /\ scene = "LoggedIn"
    /\ IsSome(it)
    /\ IsSome(current_pending_tasks)

\* A successful logout has left LoggedIn.
C12_LoggedOut ==
    /\ last.msg = "LogoutDone" /\ last.res.ok
    /\ scene = "LoginRegister"
    /\ IsSome(fetched_profiles)

\* C13: a step that changes the session token or the stored session is the
\* handling of a successful login, register or logout; a successful login or
\* register that carries a token sets that token, a successful logout clears
\* it, and after each of the three the stored session is the JSON of the
\* session in memory.  Reloading the page changes neither.
C13_TokenWriters ==
    [][ /\ (state' # state \/ storage' # storage) =>
            /\ last'.msg \in {"LoginDone", "RegisterDone", "LogoutDone"}
            /\ Succeeded
        /\ (last'.msg \in {"LoginDone", "RegisterDone"} /\ Succeeded /\ IsSome(Carried(last'.res))) =>
            /\ state'.token = Carried(last'.res)
            /\ storage' = ToJson(state')
            /\ Restore(storage') = state'
        /\ (Handling("LogoutDone") /\ Succeeded) =>
            /\ state'.token = None
            /\ storage' = ToJson(state')
            /\ Restore(storage') = state'
      ]_vars

\* A register success has replaced an unparsable stored value by the session.
C13_Witness ==
    /\ last.msg = "RegisterDone" /\ last.res.ok
    /\ state.token = Some("t1")
    /\ storage = ToJson(state)
    /\ fetch_profiles_error = None

\* A failed profile fetch after a login has left the token in place.
C13_FailureKeepsToken ==
    /\ last.msg = "FetchProfilesDone" /\ ~last.res.ok
    /\ scene = "LoginRegister"
    /\ state.token = Some("t1")
    /\ storage = ToJson(state)

\* The names of the profile list the component holds.
Known == IF IsSome(fetched_profiles) THEN Range(Unwrap(fetched_profiles)) ELSE {}

\* C14: every enabled profile is the machine name of a profile of the held
\* list.
C14_EnabledAreKnown == enabled_profiles \subseteq Known

\* Of the held list p2, p1 the name p1 has been toggled off.
C14_Witness ==
    /\ last.msg = "ToggleProfile" /\ last.arg = Some("p1")
    /\ fetched_profiles = Some(<< "p2", "p1" >>)
    /\ enabled_profiles = {"p2"}
    /\ toggled = {"p1"}

\* A later fetch returned a shorter list than the one held before; only its
\* name is enabled.
C14_Refetched ==
    /\ last.msg = "FetchProfilesDone" /\ last.res.ok
    /\ fetched_profiles = Some(<< "p1" >>)
    /\ enabled_profiles = {"p1"}
    /\ IsSome(it)

\* C15, the timer's cancellation: while the page is not reloaded, a step that
\* takes the timer from armed to cancelled is the handling of a successful
\* task fetch whose list has no new or pending task; a failed task fetch
\* leaves the timer and the held task list as they were; a logout completion,
\* successful or not, leaves the timer as it was.
C15_OnlyStopRuleCancels ==
    [][ /\ (IsSome(it) /\ it' = None /\ ~Handling("create")) =>
            /\ Handling("FetchTasksDone") /\ Succeeded
            /\ AllTerminal(Unwrap(last'.res.val))
        /\ (Handling("FetchTasksDone") /\ ~Succeeded) =>
            UNCHANGED <<it, current_pending_tasks>>
        /\ Handling("LogoutDone") => UNCHANGED it
      ]_vars

\* C15: the timer's cancellation as above, and every tick of the armed
\* timer, after a logout as before it, issues the task request for the
\* report the timer is armed for.
C15_TicksSurviveLogout ==
    [][ /\ (IsSome(it) /\ it' = None /\ ~Handling("create")) =>
            /\ Handling("FetchTasksDone") /\ Succeeded
            /\ AllTerminal(Unwrap(last'.res.val))
        /\ (Handling("FetchTasksDone") /\ ~Succeeded) =>
            UNCHANGED <<it, current_pending_tasks>>
        /\ Handling("LogoutDone") => UNCHANGED it
        /\ (Handling("FetchTasks") /\ last'.from = "timer") =>
            /\ Outstanding(ft')
            /\ Unwrap(ft').req = Request("FetchTasks", state.token, it, {})
      ]_vars

\* The logical slot a request belongs to.
Slot(kind) ==
    CASE kind = "FetchConfig" -> "config"
      [] kind \in {"Login", "Register", "Logout"} -> "auth"
      [] kind = "FetchProfiles" -> "profile"
      [] kind = "CreateReport" -> "upload"
      [] kind = "FetchTasks" -> "poll"
      [] OTHER -> "none"

\* C16: a step that issues a request while the request of another slot is
\* outstanding leaves that request's handle held.  The component has the one
\* field ft for its handles, so the handle is still held exactly when ft
\* still holds it.
C16_OtherSlotsKept ==
    [][ (Outstanding(ft) /\ Outstanding(ft') /\ ft' # ft) =>
            Slot(Unwrap(ft').req.kind) = Slot(Unwrap(ft).req.kind)
      ]_vars

\* C16, the timer's case: a tick never replaces the handle of an outstanding
\* logout, upload or profile request.
C16_TickKeepsOthers ==
    [][ (Handling("FetchTasks") /\ last'.from = "timer" /\ Outstanding(ft)
            /\ Unwrap(ft).req.kind \in {"Logout", "CreateReport", "FetchProfiles"}) =>
            ft' = ft
      ]_vars

\* C17: the report-creation request carries the profiles that were enabled
\* when the file was submitted.
C17_ProfilesAsSubmitted ==
    [][ (Handling("CreateReport") /\ Outstanding(ft') /\ Unwrap(ft').req.kind = "CreateReport") =>
            Unwrap(ft').req.profiles = Unwrap(rt).submitted
      ]_vars

\* The login and register requests whose completion has not been handled.
AuthInFlight == Completable("Login") \cup Completable("Register")

\* C18: while a login request is in flight is_login_disabled,
\* is_register_disabled and is_login_loading are true and is_register_loading
\* is false; while a register request is in flight both disabled flags and
\* is_register_loading are true and is_login_loading is false; at most one
\* login or register request is in flight, dropped requests included; and the
\* two loading flags are never both true.
C18_AntiRace ==
    /\ Completable("Login") # {} =>
        /\ is_login_disabled /\ is_register_disabled
        /\ is_login_loading /\ ~is_register_loading
    /\ Completable("Register") # {} =>
        /\ is_login_disabled /\ is_register_disabled
        /\ is_register_loading /\ ~is_login_loading
    /\ Cardinality(AuthInFlight) <= 1
    /\ \A r \in {"Login", "Register"} :
          CopiesIn(Detached(Request(r, None, None, {})), orphans) <= 1
    /\ ~(is_login_loading /\ is_register_loading)

\* A register request is in flight.
C18_Witness ==
    /\ last.msg = "Register"
    /\ Outstanding(ft) /\ Unwrap(ft).req.kind = "Register"
    /\ is_login_disabled /\ is_register_disabled
    /\ is_register_loading /\ ~is_login_loading
    /\ ~fault

\* C19: a successful logout clears the session token, stores a session
\* whose token is absent, clears the login/register error and
\* is_logout_loading and is_logout_disabled, and sets the scene to
\* LoginRegister; the page, reloaded next, restores no token.
C19_LogoutSuccess ==
    [][ /\ (Handling("LogoutDone") /\ Succeeded) =>
            /\ state'.token = None
            /\ storage' = ToJson([token |-> None])
            /\ Restore(storage').token = None
            /\ loginregister_error' = None
            /\ ~is_logout_loading' /\ ~is_logout_disabled'
            /\ scene' = "LoginRegister"
        /\ (last.msg = "LogoutDone" /\ last.res.ok /\ Handling("create")) =>
            /\ state'.token = None
            /\ scene' = "Loading"
      ]_vars

\* The session that was restored with t1 is logged out and stored so.
C19_Witness ==
    /\ last.msg = "LogoutDone" /\ last.res.ok /\ last.status = Some(200)
    /\ Unwrap(last.req).auth = Some("t1")
    /\ state.token = None
    /\ storage = ToJson([token |-> None])
    /\ scene = "LoginRegister"
    /\ ~is_logout_loading /\ ~is_logout_disabled

\* C20: a register success that carries token t sets the session token to
\* t, stores the session, clears is_register_loading, is_register_disabled
\* and is_login_disabled, and sends itself FetchProfiles, which is handled
\* next and issues the profile request with t; a register failure, an error
\* status included, clears the same three flags, sets the login/register
\* error, leaves the session token, the stored session and the scene as they
\* were, sends no message and issues no request.
C20_RegisterDone ==
    [][ /\ (Handling("RegisterDone") /\ Succeeded /\ IsSome(Carried(last'.res))) =>
            /\ state'.token = Carried(last'.res)
            /\ storage' = ToJson(state')
            /\ ~is_register_loading' /\ ~is_register_disabled' /\ ~is_login_disabled'
            /\ queue' = << FetchProfilesMessage >>
            /\ ~fault'
        /\ (last.msg = "RegisterDone" /\ last.res.ok /\ ~fault) =>
            /\ Handling("FetchProfiles")
            /\ Outstanding(ft')
            /\ Unwrap(ft').req.kind = "FetchProfiles"
            /\ Unwrap(ft').req.auth = Carried(last.res)
        /\ (Handling("RegisterDone") /\ ~IsSuccess(Unwrap(last'.status))) => ~Succeeded
        /\ (Handling("RegisterDone") /\ ~Succeeded) =>
            /\ loginregister_error' = Some("Could not register")
            /\ ~is_register_loading' /\ ~is_register_disabled' /\ ~is_login_disabled'
            /\ UNCHANGED <<scene, state, storage>>
            /\ queue' = << >>
            /\ ~Outstanding(ft') \/ ft' = ft
            /\ ~fault'
      ]_vars

C20_Witness ==
    /\ last.msg = "RegisterDone" /\ last.res.ok
    /\ state.token = Some("t1")
    /\ ~is_register_loading /\ ~is_register_disabled /\ ~is_login_disabled
    /\ queue = << FetchProfilesMessage >>
    /\ scene = "LoginRegister"

\* A register answered 401: the error is set and nothing else moved.
C20_Failed ==
    /\ last.msg = "RegisterDone" /\ ~last.res.ok /\ last.status = Some(401)
    /\ loginregister_error = Some("Could not register")
    /\ state.token = None
    /\ scene = "LoginRegister"
    /\ ~is_register_loading /\ ~is_register_disabled /\ ~is_login_disabled

\* C21: a config fetch that fails, by its status or by a body that does
\* not decode, makes the scene FetchConfigError with the config still
\* unloaded, no message sent and no request out; from FetchConfigError the
\* only step is a reload of the page; and FetchConfig is handled exactly once
\* per start: right after create, and only then.
C21_ConfigFailureIsTerminal ==
    [][ /\ (Handling("FetchConfigDone") /\ ~IsSuccess(Unwrap(last'.status))) => ~Succeeded
        /\ (Handling("FetchConfigDone") /\ ~Succeeded) =>
            /\ scene' = "FetchConfigError"
            /\ config' = None
            /\ queue' = << >>
            /\ ~Outstanding(ft')
            /\ orphans' = EmptyBag
        /\ scene = "FetchConfigError" => Handling("create")
        /\ Handling("FetchConfig") => last.msg = "create"
        /\ last.msg = "create" =>
            /\ Handling("FetchConfig")
            /\ Outstanding(ft')
            /\ Unwrap(ft').req.kind = "FetchConfig"
      ]_vars

\* The config answered 200 with a body that is no Config.
C21_Witness ==
    /\ last.msg = "FetchConfigDone" /\ ~last.res.ok /\ last.status = Some(200)
    /\ scene = "FetchConfigError"
    /\ config = None
    /\ ~Outstanding(ft)

\* C22: a failed report creation clears is_file_uploading, leaves the timer
\* and the held task list as they were, sends no message and issues no
\* request.
C22_UploadFailure ==
    [][ /\ (Handling("CreateReportDone") /\ ~IsSuccess(Unwrap(last'.status))) => ~Succeeded
        /\ (Handling("CreateReportDone") /\ ~Succeeded) =>
            /\ ~is_file_uploading'
            /\ UNCHANGED <<it, current_pending_tasks, queue>>
            /\ queue' = << >>
            /\ ~Outstanding(ft') \/ ft' = ft
            /\ ~fault'
      ]_vars

\* An upload failed while the timer of an earlier report is armed: the
\* timer is armed still and the file control is free.
C22_Witness ==
    /\ last.msg = "CreateReportDone" /\ ~last.res.ok
    /\ ~is_file_uploading
    /\ IsSome(it)
    /\ scene = "LoggedIn"

\* C23: a failed profile fetch records the error "Could not fetch profiles"
\* and leaves the scene, the session token, the stored session, the held
\* profile list and the enabled set as they were.
C23_ProfilesFailure ==
    [][ /\ (Handling("FetchProfilesDone") /\ ~IsSuccess(Unwrap(last'.status))) => ~Succeeded
        /\ (Handling("FetchProfilesDone") /\ ~Succeeded) =>
            /\ fetch_profiles_error' = Some("Could not fetch profiles")
            /\ UNCHANGED <<scene, state, storage, fetched_profiles, enabled_profiles>>
      ]_vars

\* A profile fetch failed after a login while the list of the session
\* before is held, with p1 enabled.
C23_Witness ==
    /\ last.msg = "FetchProfilesDone" /\ ~last.res.ok
    /\ fetch_profiles_error = Some("Could not fetch profiles")
    /\ scene = "LoginRegister"
    /\ IsSome(state.token)
    /\ fetched_profiles = Some(<< "p1" >>)
    /\ enabled_profiles = {"p1"}

\* C24: a file selection of no file or of more than one file changes
\* nothing: no flag, no file read, no request.
C24_NotOneFile ==
    [][ (Handling("LoadFile") /\ last'.arg # Some(1)) =>
            UNCHANGED <<scene, config, state, storage, ft, rt, it, orphans, queue,
                        errors, profileVars, current_pending_tasks,
                        is_file_uploading, authFlags, logoutFlags, fault>>
      ]_vars

\* Two files were selected: nothing is being read or uploaded.
C24_Witness ==
    /\ last.msg = "LoadFile" /\ last.arg = Some(2)
    /\ ~is_file_uploading
    /\ rt = None
    /\ scene = "LoggedIn"

\* A request of the kind is in flight: its callback can still run.
InFlight(kind) == Completable(kind) # {}

\* C26, while the handlers run to their end: is_file_uploading is true
\* exactly while the file read or the report-creation request that LoadFile
\* started is outstanding.
C26_BusyWhileOutstanding ==
    ~fault => (is_file_uploading <=> (Outstanding(rt) \/ InFlight("CreateReport")))

\* C26, one direction, on a transport that cancels a dropped request: a
\* set busy flag has a read or a request behind it that will clear it.
C26_BusyIsCleared ==
    (~fault /\ drop_cancels /\ is_file_uploading) =>
        (Outstanding(rt) \/ InFlight("CreateReport"))

\* C27: in LoggedIn the session token is present, the config is loaded and
\* a profile list is held.
C27_LoggedInHasAll ==
    scene = "LoggedIn" =>
        /\ IsSome(state.token)
        /\ IsSome(config)
        /\ IsSome(fetched_profiles)

\* C27 without the token: in LoggedIn the config is loaded and a profile
\* list is held.
C27_LoggedInHasList ==
    scene = "LoggedIn" => (IsSome(config) /\ IsSome(fetched_profiles))

\* C27 on a transport that cancels a dropped request.
C27_LoggedInWhenCancelling ==
    (drop_cancels /\ scene = "LoggedIn") =>
        /\ IsSome(state.token)
        /\ IsSome(config)
        /\ IsSome(fetched_profiles)

\* C28: while the scene is Loading the config request or the profile
\* request of the startup is outstanding, or the message that issues it is
\* queued.
C28_LoadingHasWork ==
    scene = "Loading" =>
        \/ queue # << >>
        \/ InFlight("FetchConfig")
        \/ InFlight("FetchProfiles")

\* C29, while the handlers run to their end: a disabled login, register or
\* logout control has its request in flight.
C29_DisabledHasRequest ==
    ~fault =>
        /\ is_logout_disabled => InFlight("Logout")
        /\ is_login_disabled => (InFlight("Login") \/ InFlight("Register"))
        /\ is_register_disabled => (InFlight("Login") \/ InFlight("Register"))

\* C29, for login and register alone.
C29_AuthDisabledHasRequest ==
    ~fault =>
        /\ is_login_disabled => (InFlight("Login") \/ InFlight("Register"))
        /\ is_register_disabled => (InFlight("Login") \/ InFlight("Register"))

\* C25: an armed timer is eventually cancelled.
C25_PollingTerminates == IsSome(it) ~> (it = None)

\* C25, for a user who leaves the application alone and handlers that run
\* to their end: once the timer is armed it is eventually cancelled, unless
\* the user acts again or a handler faults.
C25_LeftAloneTerminates ==
    IsSome(it) ~> (it = None \/ fault \/ last.from \in {"user", "reader", "boot"})

\* A tick arrives while the task request of an earlier tick is in flight.
TickOverTaskFetch ==
    Tick /\ Outstanding(ft) /\ Unwrap(ft).req.kind = "FetchTasks"

\* C25, when from some time on no tick arrives while a task request is in
\* flight: the user leaving the application alone and no handler faulting,
\* an armed timer is eventually cancelled.
C25_TerminatesWhenTicksAreSlow ==
    (<>[][~TickOverTaskFetch]_vars) => C25_LeftAloneTerminates

\* C25, the cancelled timer: within one run of the page only a successful
\* report creation arms the timer.
C25_StaysCancelled ==
    [][ (it = None /\ IsSome(it')) => (Handling("CreateReportDone") /\ Succeeded) ]_vars

====
